---- MODULE Spec2Model ----
(***************************************************************************)
(* Model of the resumable session store (sessionV6) and of the resume      *)
(* filter (isCopiedFactory) of the Minio client.                           *)
(***************************************************************************)
EXTENDS Integers, Sequences, FiniteSets, TLC

\* ------------------------------------------------------------------ bounds

\* Longest replay sequence fed to one resume filter.
MaxReplay == 4

\* Work item identifiers (source URLs); "" is the empty identifier.
Items == {"itemA", "itemB", "itemC", "itemD"}
URLs == Items \cup {""}

\* Longest list of work items one session holds.
MaxItems == 2

\* Identifiers of the work items of the modelled session.
SessionItems == {"itemA", "itemB"}

\* Threads of one process: the thread that drives the session and the workers.
Workers == {"w1", "w2"}
Threads == Workers \cup {"main"}

\* ------------------------------------------------------- resume filter state

VARIABLES
    fState,      \* "none" before isCopiedFactory ran, "ready" after, "fatal" after fatalIf
    lastCopied,  \* the checkpoint captured by the closure
    copied,      \* the closure's flag
    replay,      \* the identifiers the caller is going to pass, in call order
    rets,        \* the values returned so far, in call order
    fFresh       \* TRUE when the checkpoint was taken from a freshly created session

fvars == <<fState, lastCopied, copied, replay, rets, fFresh>>

\* ------------------------------------------------------------ session state

VARIABLES
    \* durable storage: the two artifacts of the one session ID modelled
    hdrExists,   \* the header file exists
    hdrBytes,    \* its content: the serialized header, a list of <<key, value>>
    dataExists,  \* the data file exists
    dataContent, \* its content as the file system shows it, one entry per item
    dataDurable, \* the part of it that reached durable storage (last Sync)
    \* the world outside: which items' transfers have fully completed
    completed,
    \* the process
    procState,   \* "first" | "restarted" (after a crash or exit) | "dead" (fatalIf)
    phase,       \* "start" | "populate" | "loaded" | "active"
    hasSess,     \* a sessionV6 object exists in memory
    sess,        \* Header, and DataFP: open, mode, dirty, offset
    mutex,       \* "free" or the thread that holds s.mutex
    pc,          \* per thread: where it is
    cur,         \* per worker: index in plan of the item it transfers (0: none)
    mainRet,     \* what the last Save, Close or Delete of the main thread returned
    plan,        \* the items replayed from the data stream in this process
    planCp,      \* the checkpoint the resume filter of this process was built from
    skip,        \* the resume filter's answer for each of them
    nextIdx,     \* the next index of plan to dispatch
    \* history, for stating the properties
    wrote,       \* the items passed to Write since NewDataWriter
    rewound,     \* NewDataWriter was called again after items were written
    lastAck,     \* Header.LastCopied of the last Save that returned nil ("-": none)
    afterAck,    \* the LastCopied values flushed to the header file since then
    delCalled,   \* Delete has been called
    closedHdr,   \* <<the header a Close flushed>>, while no later Save replaced it
    endKind,     \* how the first process ended: "none" | "kill" | "power"
    loadVer,     \* the version stored in the header file when loadSessionV6 read it
    migrated     \* what migrateSessionV5ToV6 did in this process

svars == <<hdrExists, hdrBytes, dataExists, dataContent, dataDurable, completed,
           procState, phase, hasSess, sess, mutex, pc, cur, mainRet, plan, planCp,
           skip,
           nextIdx, wrote, rewound, lastAck, afterAck, delCalled, closedHdr,
           endKind, loadVer, migrated>>

\* ------------------------------------------------------- data stream readers

\* The readers handed out by NewDataReader.
Readers == {"r1", "r2"}

\* Most items one Read call returns.
MaxChunk == 2

VARIABLES
    rdState,     \* per reader: "none" | "open" (handed out) | "eof" | "err"
    rdSeen       \* per reader: the items its Read calls returned, in order

rvars == <<rdState, rdSeen>>

\* ------------------------------------------------------ request authenticator

VARIABLES
    req,          \* the request: Method, URL (Scheme, Host, Path, RawQuery), Header
    reqBefore,    \* the request as it was when the last signing call began
    reqNew,       \* the request as it was before the first signing call
    cfg,          \* r.config: AccessKeyID, SecretAccessKey, Region, isVirtualHostedStyle
    expires,      \* r.expires
    now,          \* what time.Now() gave the last call
    calls,        \* the signing calls made on the request, in order
    out,          \* what the last call returned: url and err
    hmacs,        \* the number of HMACs the last call computed
    resourceList, \* the package-level variable resourceList
    canonical     \* the canonical request the last V4 call built (<<>>: none)

avars == <<req, reqBefore, reqNew, cfg, expires, now, calls, out, hmacs,
           resourceList, canonical>>

\* ------------------------------------------- concurrent signing goroutines

\* Goroutines that each sign a request of their own with SignV2.
Goroutines == {"g1", "g2"}

VARIABLES
    gpc,     \* per goroutine, where it is in writeCanonicalizedResource:
             \* "sort" | "swap" | "scan" | "done"
    gsort,   \* per goroutine in the sort: <<i, j>>, its outer and inner index
    gtmp,    \* per goroutine in a swap: the two names it read, <<x[j-1], x[j]>>
    gidx,    \* per goroutine: the index its loop over resourceList is at
    gkeys,   \* per goroutine: the keys of its request's query
    gout     \* per goroutine: the sub-resources it has written, in order

cvars == <<gpc, gsort, gtmp, gidx, gkeys, gout>>

\* ------------------------------------------------------ session migration

\* The session IDs whose files the session directory may hold.
SessionIDs == {"s1", "s2", "s3"}

VARIABLES
    store,      \* per session ID: whether its header file exists (hdr), the
                \* content of that file (bytes), whether its data file exists
    migOrder,   \* the IDs getSessionIDs returned to the migration, in order
    migState    \* "idle" | "returned" | "dead" (fatalIf)

mvars == <<store, migOrder, migState>>

xvars == <<rvars, avars, cvars, mvars>>

vars == <<fvars, svars, xvars>>

\* ---------------------------------------------------------- session header

\* newSessionV6: the header of a freshly created session.
newHeader == [Version |-> "6", LastCopied |-> ""]

\* sessionV6.HasData
HasData(h) == IF h.LastCopied = "" THEN FALSE ELSE TRUE

\* ------------------------------------------------------------ resume filter

\* One call of the closure returned by isCopiedFactory(lc), with the closure
\* flag cp, on sourceURL (non-empty): the returned value and the new flag.
isCopiedMutNoFlip(lc, cp, sourceURL) ==
    IF lc = "" THEN [ret |-> FALSE, copied |-> cp]
    ELSE IF cp THEN [ret |-> TRUE, copied |-> cp]
    ELSE [ret |-> FALSE, copied |-> cp]

isCopiedMutEmptySkips(lc, cp, sourceURL) ==
    IF cp
    THEN [ret |-> TRUE, copied |-> IF lc = sourceURL THEN FALSE ELSE cp]
    ELSE [ret |-> FALSE, copied |-> cp]

isCopiedMutFalseUntilMatch(lc, cp, sourceURL) ==
    IF lc = "" THEN [ret |-> FALSE, copied |-> cp]
    ELSE IF cp
         THEN [ret |-> lc = sourceURL, copied |-> IF lc = sourceURL THEN FALSE ELSE cp]
         ELSE [ret |-> FALSE, copied |-> cp]

isCopied(lc, cp, sourceURL) ==
    IF lc = "" THEN [ret |-> FALSE, copied |-> cp]
    ELSE IF cp
         THEN [ret |-> TRUE, copied |-> IF lc = sourceURL THEN FALSE ELSE cp]
         ELSE [ret |-> FALSE, copied |-> cp]

\* isCopiedFactory(c): the closure is created with copied = true.
isCopiedFactory(c) ==
    /\ fState = "none"
    /\ fState' = "ready"
    /\ lastCopied' = c
    /\ copied' = TRUE
    /\ fFresh' = FALSE
    /\ UNCHANGED <<replay, rets, svars, xvars>>

\* The caller builds the filter from the header of a session it just created.
isCopiedFactoryFresh ==
    /\ fState = "none"
    /\ fState' = "ready"
    /\ lastCopied' = newHeader.LastCopied
    /\ copied' = TRUE
    /\ fFresh' = TRUE
    /\ UNCHANGED <<replay, rets, svars, xvars>>

\* The next call of the closure, on the next identifier of the replay.
CallIsCopied ==
    /\ fState = "ready"
    /\ Len(rets) < Len(replay)
    /\ LET sourceURL == replay[Len(rets) + 1] IN
       IF sourceURL = ""
       THEN \* fatalIf: the process exits, nothing is returned
            /\ fState' = "fatal"
            /\ UNCHANGED <<lastCopied, copied, replay, rets, fFresh, svars, xvars>>
       ELSE LET r == isCopied(lastCopied, copied, sourceURL) IN
            /\ rets' = Append(rets, r.ret)
            /\ copied' = r.copied
            /\ UNCHANGED <<fState, lastCopied, replay, fFresh, svars, xvars>>

SeqsUpTo(S, n) == UNION {[1..k -> S] : k \in 0..n}

\* The answers of one closure from isCopiedFactory(lc) called on each
\* identifier of s in turn; cp is the closure's flag before the first of them.
RECURSIVE isCopiedRun(_, _, _)
isCopiedRun(lc, cp, s) ==
    IF s = <<>> THEN <<>>
    ELSE LET r == isCopied(lc, cp, Head(s)) IN
         <<r.ret>> \o isCopiedRun(lc, r.copied, Tail(s))

\* --------------------------------------------------- header (de)serialization

\* json.Marshal of a sessionV6Header: one <<key, value>> per field, keyed by
\* the field's json tag.
MarshalMutWrongField(h) == <<<<"version", h.Version>>, <<"lastCopied", h.Version>>>>

Marshal(h) == <<<<"version", h.Version>>, <<"lastCopied", h.LastCopied>>>>

\* json.Unmarshal of bytes into the header h: each known key overwrites its
\* field, a field with no key keeps the value h had.
RECURSIVE Unmarshal(_, _)
Unmarshal(bytes, h) ==
    IF bytes = <<>> THEN h
    ELSE LET kv == Head(bytes)
             h2 == IF kv[1] = "version" THEN [h EXCEPT !.Version = kv[2]]
                   ELSE IF kv[1] = "lastCopied" THEN [h EXCEPT !.LastCopied = kv[2]]
                   ELSE h
         IN Unmarshal(Tail(bytes), h2)

\* loadSessionV6, the header: a zero header with Version "5", overwritten by
\* what quick.Load reads from the session file. No version is compared.
LoadHeaderMutKeepDefault(bytes) ==
    [Unmarshal(bytes, [Version |-> "5", LastCopied |-> ""]) EXCEPT !.Version = "5"]

LoadHeader(bytes) == Unmarshal(bytes, [Version |-> "5", LastCopied |-> ""])

\* The session object before newSessionV6 or loadSessionV6 ran.
NoSess == [Header |-> [Version |-> "", LastCopied |-> ""],
           open |-> FALSE, mode |-> "ro", dirty |-> FALSE, offset |-> 0]

\* The content of a file after one record is written at offset off.
WriteAt(content, off, item) ==
    IF off < Len(content)
    THEN [content EXCEPT ![off + 1] = item]
    ELSE Append(content, item)

\* ------------------------------------------------------------ session: start

Running == procState \in {"first", "restarted"}

disk == <<hdrExists, hdrBytes, dataExists, dataContent, dataDurable>>
work == <<plan, planCp, skip, nextIdx, cur, completed>>
\* the variables that only record history
hist == <<wrote, rewound, lastAck, afterAck, delCalled, closedHdr, endKind,
          loadVer, migrated>>

\* newSessionV6: a fresh header (Version "6", empty LastCopied), a new mutex,
\* the data file created empty (os.Create) and held open read-write.
newSessionV6 ==
    /\ Running /\ phase = "start" /\ ~hasSess
    /\ ~hdrExists /\ ~dataExists   \* newRandomID: an ID with no files yet
    /\ hasSess' = TRUE
    /\ sess' = [Header |-> newHeader, open |-> TRUE, mode |-> "rw",
                dirty |-> FALSE, offset |-> 0]
    /\ dataExists' = TRUE
    /\ dataContent' = <<>>
    /\ dataDurable' = <<>>
    /\ phase' = "populate"
    /\ UNCHANGED <<hdrExists, hdrBytes, procState, mutex, pc, mainRet, work,
                   hist, fvars, xvars>>

\* loadSessionV6: error when the session file is missing; else the header is
\* read from it, and the data file is opened read-only (os.Open), with fatalIf
\* when that fails.
loadSessionV6 ==
    /\ Running /\ phase = "start" /\ ~hasSess
    /\ hdrExists
    /\ loadVer' = Unmarshal(hdrBytes, [Version |-> "-", LastCopied |-> ""]).Version
    /\ IF ~dataExists
       THEN /\ procState' = "dead"
            /\ UNCHANGED <<hasSess, sess, phase>>
       ELSE /\ hasSess' = TRUE
            /\ sess' = [Header |-> LoadHeader(hdrBytes), open |-> TRUE,
                        mode |-> "ro", dirty |-> FALSE, offset |-> 0]
            /\ phase' = "loaded"
            /\ UNCHANGED procState
    /\ UNCHANGED <<disk, mutex, pc, mainRet, work, wrote, rewound, lastAck,
                   afterAck, delCalled, closedHdr, endKind, migrated, fvars, xvars>>

\* migrateSessionV5ToV6, for the one session ID on disk: the session is loaded;
\* a version "6" header ends the migration, any other version has the session
\* file and the session data file removed.
migrateMutKeepsData ==
    /\ Running /\ phase = "start" /\ ~hasSess
    /\ migrated = "no"
    /\ hdrExists
    /\ IF ~dataExists
       THEN /\ procState' = "dead"
            /\ UNCHANGED <<disk, migrated>>
       ELSE IF LoadHeader(hdrBytes).Version = "6"
       THEN /\ migrated' = "kept"
            /\ UNCHANGED <<disk, procState>>
       ELSE /\ migrated' = "purged"
            /\ hdrExists' = FALSE
            /\ hdrBytes' = <<>>
            /\ UNCHANGED <<dataExists, dataContent, dataDurable, procState>>
    /\ UNCHANGED <<phase, hasSess, sess, mutex, pc, mainRet, work, wrote, rewound,
                   lastAck, afterAck, delCalled, closedHdr, endKind, loadVer,
                   fvars, xvars>>

migrateSessionV5ToV6 ==
    /\ Running /\ phase = "start" /\ ~hasSess
    /\ migrated = "no"
    /\ hdrExists
    /\ IF ~dataExists
       THEN \* loadSessionV6 ends in fatalIf
            /\ procState' = "dead"
            /\ UNCHANGED <<disk, migrated>>
       ELSE IF LoadHeader(hdrBytes).Version = "6"
       THEN /\ migrated' = "kept"
            /\ UNCHANGED <<disk, procState>>
       ELSE /\ migrated' = "purged"
            /\ hdrExists' = FALSE
            /\ hdrBytes' = <<>>
            /\ dataExists' = FALSE
            /\ dataContent' = <<>>
            /\ dataDurable' = <<>>
            /\ UNCHANGED procState
    /\ UNCHANGED <<phase, hasSess, sess, mutex, pc, mainRet, work, wrote, rewound,
                   lastAck, afterAck, delCalled, closedHdr, endKind, loadVer,
                   fvars, xvars>>

\* -------------------------------------------- session: migration of a directory

\* A session ID with no file on disk.
NoFiles == [hdr |-> FALSE, bytes |-> <<>>, data |-> FALSE]

\* What the session directory may hold for one session ID: nothing, or a
\* header file of version "5" or "6" with or without its data file.
StoredSessions ==
    {NoFiles} \cup
    {[hdr |-> TRUE, bytes |-> Marshal([Version |-> v, LastCopied |-> ""]),
      data |-> d] : v \in {"5", "6"}, d \in BOOLEAN}

\* getSessionIDs: the IDs that have a session file, in the order listed.
getSessionIDs(st) ==
    LET ids == {id \in SessionIDs : st[id].hdr}
        n == Cardinality(ids)
    IN {o \in [1..n -> ids] : \A i, j \in 1..n : o[i] = o[j] => i = j}

\* The loop of migrateSessionV5ToV6 over the IDs sids, on the directory st:
\* the directory it leaves, and whether it returned or ended in fatalIf.
RECURSIVE migrateLoop(_, _)
migrateLoop(st, sids) ==
    IF sids = <<>> THEN [store |-> st, state |-> "returned"]
    ELSE LET sid == Head(sids) IN
         IF ~st[sid].hdr \/ ~st[sid].data
         THEN \* loadSessionV6 fails or ends in fatalIf
              [store |-> st, state |-> "dead"]
         ELSE IF LoadHeader(st[sid].bytes).Version = "6"
         THEN [store |-> st, state |-> "returned"]
         ELSE migrateLoop([st EXCEPT ![sid] = NoFiles], Tail(sids))

\* migrateSessionV5ToV6 on a session directory.
migrateDirectory ==
    /\ migState = "idle"
    /\ \E sids \in getSessionIDs(store) :
        /\ migOrder' = sids
        /\ \E res \in {migrateLoop(store, sids)} :
            /\ store' = res.store
            /\ migState' = res.state
    /\ UNCHANGED <<fvars, svars, rvars, avars, cvars>>

\* ------------------------------------------------------- session: data stream

\* NewDataWriter: seeks the data file to its start.
NewDataWriter ==
    /\ Running /\ phase = "populate" /\ hasSess /\ pc["main"] = "idle"
    /\ sess.offset > 0
    /\ sess' = [sess EXCEPT !.offset = 0]
    /\ wrote' = <<>>
    /\ rewound' = TRUE
    /\ UNCHANGED <<disk, procState, phase, hasSess, mutex, pc, mainRet, work,
                   lastAck, afterAck, delCalled, closedHdr, endKind, loadVer,
                   migrated, fvars, xvars>>

\* sessionDataFP.Write of one item through the writer: dirty is set, then the
\* file is written at its offset; the write fails on a closed or read-only file.
Write(item) ==
    /\ Running /\ phase = "populate" /\ hasSess /\ pc["main"] = "idle"
    /\ sess.offset < MaxItems
    /\ IF sess.open /\ sess.mode = "rw" /\ dataExists
       THEN /\ dataContent' = WriteAt(dataContent, sess.offset, item)
            /\ sess' = [sess EXCEPT !.dirty = TRUE, !.offset = @ + 1]
            /\ wrote' = Append(wrote, item)
       ELSE /\ sess' = [sess EXCEPT !.dirty = TRUE]
            /\ UNCHANGED <<dataContent, wrote>>
    /\ UNCHANGED <<hdrExists, hdrBytes, dataExists, dataDurable, procState, phase,
                   hasSess, mutex, pc, mainRet, work, rewound, lastAck, afterAck,
                   delCalled, closedHdr, endKind, loadVer, migrated, fvars, xvars>>

\* The transfer starts or resumes: the items are replayed through
\* NewDataReader (seek to the start, read to the end) and each is classified
\* by the resume filter built from Header.LastCopied.
StartTransfer ==
    /\ Running /\ phase \in {"populate", "loaded"} /\ hasSess /\ pc["main"] = "idle"
    /\ sess.open /\ dataExists
    /\ plan' = dataContent
    /\ planCp' = sess.Header.LastCopied
    /\ skip' = isCopiedRun(sess.Header.LastCopied, TRUE, dataContent)
    /\ nextIdx' = 1
    /\ sess' = [sess EXCEPT !.offset = Len(dataContent)]
    /\ phase' = "active"
    /\ UNCHANGED <<disk, procState, hasSess, mutex, pc, mainRet, cur, completed,
                   hist, fvars, xvars>>

\* ------------------------------------------------------------- session: Save

\* What a thread does after Save returned r: a worker whose checkpoint failed
\* stops, every other return leaves the thread free for its next call.
AfterSave(t, r) == IF t \in Workers /\ r = "err" THEN "failed" ELSE "idle"

\* The thread is about to call Save: a worker after it recorded its item, the
\* main thread at any point of the population.
CallsSave(t) ==
    \/ t = "main" /\ pc[t] = "idle" /\ phase = "populate"
    \/ t \in Workers /\ pc[t] = "save"

\* Save, up to the header: s.mutex.Lock() (the caller blocks until the mutex
\* is free), then, when DataFP.dirty, DataFP.Sync(); its error is returned (the
\* deferred Unlock runs), else dirty is cleared. Lock and Sync are one step: no
\* step of another thread between them touches what they read or write.
SaveSyncMutNoMutex(t) ==
    /\ Running /\ hasSess /\ CallsSave(t)
    /\ IF ~sess.dirty
       THEN /\ pc' = [pc EXCEPT ![t] = "save_write"]
            /\ mutex' = t
            /\ mainRet' = IF t = "main" THEN "none" ELSE mainRet
            /\ UNCHANGED <<disk, sess>>
       ELSE /\ sess.open /\ dataExists
            /\ dataDurable' = dataContent
            /\ sess' = [sess EXCEPT !.dirty = FALSE]
            /\ pc' = [pc EXCEPT ![t] = "save_write"]
            /\ mutex' = t
            /\ mainRet' = IF t = "main" THEN "none" ELSE mainRet
            /\ UNCHANGED <<hdrExists, hdrBytes, dataExists, dataContent>>
    /\ UNCHANGED <<procState, phase, hasSess, work, hist, fvars, xvars>>

SaveSyncMutNoSync(t) ==
    /\ Running /\ hasSess /\ CallsSave(t)
    /\ mutex = "free"
    /\ sess' = [sess EXCEPT !.dirty = FALSE]
    /\ pc' = [pc EXCEPT ![t] = "save_write"]
    /\ mutex' = t
    /\ mainRet' = IF t = "main" THEN "none" ELSE mainRet
    /\ UNCHANGED <<disk, procState, phase, hasSess, work, hist, fvars, xvars>>

SaveSyncMutIgnoresSyncError(t) ==
    /\ Running /\ hasSess /\ CallsSave(t)
    /\ mutex = "free"
    /\ \/ /\ sess.dirty => (sess.open /\ dataExists)
          /\ dataDurable' = IF sess.dirty THEN dataContent ELSE dataDurable
          /\ sess' = [sess EXCEPT !.dirty = FALSE]
       \/ /\ sess.dirty
          /\ UNCHANGED <<dataDurable, sess>>
    /\ pc' = [pc EXCEPT ![t] = "save_write"]
    /\ mutex' = t
    /\ mainRet' = IF t = "main" THEN "none" ELSE mainRet
    /\ UNCHANGED <<hdrExists, hdrBytes, dataExists, dataContent, procState, phase,
                   hasSess, work, hist, fvars, xvars>>

SaveSync(t) ==
    /\ Running /\ hasSess /\ CallsSave(t)
    /\ mutex = "free"
    /\ IF ~sess.dirty
       THEN /\ pc' = [pc EXCEPT ![t] = "save_write"]
            /\ mutex' = t
            /\ mainRet' = IF t = "main" THEN "none" ELSE mainRet
            /\ UNCHANGED <<disk, sess>>
       ELSE \/ \* Sync succeeds
               /\ sess.open /\ dataExists
               /\ dataDurable' = dataContent
               /\ sess' = [sess EXCEPT !.dirty = FALSE]
               /\ pc' = [pc EXCEPT ![t] = "save_write"]
               /\ mutex' = t
               /\ mainRet' = IF t = "main" THEN "none" ELSE mainRet
               /\ UNCHANGED <<hdrExists, hdrBytes, dataExists, dataContent>>
            \/ \* Sync fails (closed file, or an I/O error): Save returns it
               /\ mainRet' = IF t = "main" THEN "err" ELSE mainRet
               /\ pc' = [pc EXCEPT ![t] = AfterSave(t, "err")]
               /\ UNCHANGED <<disk, sess, mutex>>
    /\ UNCHANGED <<procState, phase, hasSess, work, hist, fvars, xvars>>

\* Save, the header: quick.New(s.Header), then qs.Save(sessionFile) overwrites
\* the session file with the serialized header, or fails and leaves it; the
\* result is returned and the deferred Unlock runs.
SaveWrite(t) ==
    /\ Running /\ pc[t] = "save_write"
    /\ \/ /\ hdrExists' = TRUE
          /\ hdrBytes' = Marshal(sess.Header)
          /\ mainRet' = IF t = "main" THEN "ok" ELSE mainRet
          /\ pc' = [pc EXCEPT ![t] = AfterSave(t, "ok")]
          /\ lastAck' = sess.Header.LastCopied
          /\ afterAck' = {sess.Header.LastCopied}
          /\ closedHdr' = <<>>
       \/ /\ mainRet' = IF t = "main" THEN "err" ELSE mainRet
          /\ pc' = [pc EXCEPT ![t] = AfterSave(t, "err")]
          /\ UNCHANGED <<hdrExists, hdrBytes, lastAck, afterAck, closedHdr>>
    /\ mutex' = "free"
    /\ UNCHANGED <<dataExists, dataContent, dataDurable, procState, phase, hasSess,
                   sess, work, wrote, rewound, delCalled, endKind, loadVer,
                   migrated, fvars, xvars>>

\* ------------------------------------------------------------ session: Close

\* The main thread ends the session once, with Close or with Delete.
EndsSession ==
    /\ Running /\ hasSess /\ pc["main"] = "idle"
    /\ phase \in {"populate", "loaded", "active"}

\* Close, up to the header: s.mutex.Lock(), then DataFP.Close(); its error (the
\* file is closed already) is returned. The stream is closed, not synchronized,
\* and dirty is left as it is.
CloseFP ==
    /\ EndsSession
    /\ mutex = "free"
    /\ IF sess.open
       THEN /\ sess' = [sess EXCEPT !.open = FALSE]
            /\ pc' = [pc EXCEPT !["main"] = "close_write"]
            /\ mutex' = "main"
            /\ mainRet' = "none"
       ELSE /\ mainRet' = "err"
            /\ pc' = [pc EXCEPT !["main"] = "done"]
            /\ UNCHANGED <<sess, mutex>>
    /\ UNCHANGED <<disk, procState, phase, hasSess, work, hist, fvars, xvars>>

\* Close, the header: quick.New(s.Header), qs.Save(sessionFile), Unlock.
CloseWriteMutRemovesFiles ==
    /\ Running /\ pc["main"] = "close_write"
    /\ hdrExists' = FALSE
    /\ hdrBytes' = <<>>
    /\ dataExists' = FALSE
    /\ dataContent' = <<>>
    /\ dataDurable' = <<>>
    /\ mainRet' = "ok"
    /\ pc' = [pc EXCEPT !["main"] = "done"]
    /\ mutex' = "free"
    /\ UNCHANGED <<procState, phase, hasSess, sess, work, hist, fvars, xvars>>

CloseWrite ==
    /\ Running /\ pc["main"] = "close_write"
    /\ \/ /\ hdrExists' = TRUE
          /\ hdrBytes' = Marshal(sess.Header)
          /\ mainRet' = "ok"
          /\ afterAck' = afterAck \cup {sess.Header.LastCopied}
          /\ closedHdr' = <<sess.Header>>
       \/ /\ mainRet' = "err"
          /\ UNCHANGED <<hdrExists, hdrBytes, afterAck, closedHdr>>
    /\ pc' = [pc EXCEPT !["main"] = "done"]
    /\ mutex' = "free"
    /\ UNCHANGED <<dataExists, dataContent, dataDurable, procState, phase, hasSess,
                   sess, work, wrote, rewound, lastAck, delCalled, endKind,
                   loadVer, migrated, fvars, xvars>>

\* ----------------------------------------------------------- session: Delete

\* Delete, the data file: s.mutex.Lock(); DataFP (never nil) is closed, its
\* error ignored, and os.Remove(name) runs; when that fails Delete returns the
\* error at once.
DeleteData ==
    /\ EndsSession
    /\ mutex = "free"
    /\ mutex' = "main"
    /\ delCalled' = TRUE
    /\ sess' = [sess EXCEPT !.open = FALSE]
    /\ \/ /\ dataExists
          /\ dataExists' = FALSE
          /\ dataContent' = <<>>
          /\ dataDurable' = <<>>
          /\ pc' = [pc EXCEPT !["main"] = "del_hdr"]
          /\ mainRet' = "none"
       \/ \* os.Remove fails: no such file, or the file system refuses
          /\ mainRet' = "err"
          /\ pc' = [pc EXCEPT !["main"] = "del_ret"]
          /\ UNCHANGED <<dataExists, dataContent, dataDurable>>
    /\ UNCHANGED <<hdrExists, hdrBytes, procState, phase, hasSess, work, wrote,
                   rewound, lastAck, afterAck, closedHdr, endKind, loadVer,
                   migrated, fvars, xvars>>

\* Delete, the session file: os.Remove(sessionFile); its error is returned.
DeleteHeaderMutNoRemove ==
    /\ Running /\ pc["main"] = "del_hdr"
    /\ mainRet' = "ok"
    /\ pc' = [pc EXCEPT !["main"] = "del_ret"]
    /\ UNCHANGED <<disk, procState, phase, hasSess, sess, mutex, work, hist, fvars, xvars>>

DeleteHeader ==
    /\ Running /\ pc["main"] = "del_hdr"
    /\ \/ /\ hdrExists
          /\ hdrExists' = FALSE
          /\ hdrBytes' = <<>>
          /\ mainRet' = "ok"
       \/ \* os.Remove fails: no such file, or the file system refuses
          /\ mainRet' = "err"
          /\ UNCHANGED <<hdrExists, hdrBytes>>
    /\ pc' = [pc EXCEPT !["main"] = "del_ret"]
    /\ UNCHANGED <<dataExists, dataContent, dataDurable, procState, phase, hasSess,
                   sess, mutex, work, hist, fvars, xvars>>

\* Delete returns: the deferred s.mutex.Unlock().
DeleteReturn ==
    /\ Running /\ pc["main"] = "del_ret"
    /\ pc' = [pc EXCEPT !["main"] = "done"]
    /\ mutex' = "free"
    /\ UNCHANGED <<disk, procState, phase, hasSess, sess, mainRet, work, hist,
                   fvars, xvars>>

\* ---------------------------------------------------------- session: workers

\* The indices of plan not yet dispatched that the filter did not skip.
Pending == {i \in nextIdx..Len(plan) : ~skip[i]}

\* The next item of the replay that the filter did not skip goes to a free
\* worker, the first of them.
StartItem(w) ==
    /\ Running /\ phase = "active" /\ hasSess /\ pc[w] = "idle"
    /\ w = "w1" \/ pc["w1"] # "idle"
    /\ Pending # {}
    /\ LET i == CHOOSE j \in Pending : \A k \in Pending : j <= k IN
       /\ cur' = [cur EXCEPT ![w] = i]
       /\ nextIdx' = i + 1
    /\ pc' = [pc EXCEPT ![w] = "copy"]
    /\ UNCHANGED <<disk, procState, phase, hasSess, sess, mutex, mainRet, plan,
                   planCp, skip, completed, hist, fvars, xvars>>

\* The transfer of the worker's item completes.
FinishItem(w) ==
    /\ Running /\ pc[w] = "copy"
    /\ completed' = completed \cup {plan[cur[w]]}
    /\ pc' = [pc EXCEPT ![w] = "ckpt"]
    /\ UNCHANGED <<disk, procState, phase, hasSess, sess, mutex, mainRet, plan,
                   planCp, skip, nextIdx, cur, hist, fvars, xvars>>

\* Checkpoint, first half: under the session's mutex the worker records its
\* completed item as Header.LastCopied; it calls Save next.
SetLastCopied(w) ==
    /\ Running /\ pc[w] = "ckpt"
    /\ mutex = "free"
    /\ sess' = [sess EXCEPT !.Header.LastCopied = plan[cur[w]]]
    /\ pc' = [pc EXCEPT ![w] = "save"]
    /\ UNCHANGED <<disk, procState, phase, hasSess, mutex, mainRet, work, hist,
                   fvars, xvars>>

\* ------------------------------------------------------------ process ending

\* The first process stops at any point: killed or exiting ("kill": what the
\* file system held stays) or losing power ("power": what was not synchronized
\* is lost). A new process starts with nothing in memory.
Crash(kind) ==
    /\ procState = "first"
    /\ hasSess
    /\ procState' = "restarted"
    /\ endKind' = kind
    /\ dataContent' = IF kind = "power" THEN dataDurable ELSE dataContent
    /\ hasSess' = FALSE
    /\ sess' = NoSess
    /\ mutex' = "free"
    /\ pc' = [t \in Threads |-> "idle"]
    /\ mainRet' = "none"
    /\ cur' = [w \in Workers |-> 0]
    /\ plan' = <<>>
    /\ planCp' = ""
    /\ skip' = <<>>
    /\ nextIdx' = 1
    /\ phase' = "start"
    /\ migrated' = "no"
    /\ UNCHANGED <<hdrExists, hdrBytes, dataExists, dataDurable, completed, wrote,
                   rewound, lastAck, afterAck, delCalled, closedHdr, loadVer,
                   fvars, xvars>>

\* ------------------------------------------ data stream: readers and writers

\* The session is active and the main thread has not ended it.
StreamInUse ==
    /\ Running /\ hasSess /\ phase = "active" /\ pc["main"] = "idle"

\* NewDataReader, handing out reader r: DataFP.Seek(0, SEEK_SET), and DataFP
\* itself is returned as the reader. Every reader is the one file pointer of
\* the session, with its one offset.
NewDataReader(r) ==
    /\ StreamInUse
    /\ rdState[r] = "none"
    /\ rdState' = [rdState EXCEPT ![r] = "open"]
    /\ sess' = [sess EXCEPT !.offset = 0]
    /\ UNCHANGED <<disk, procState, phase, hasSess, mutex, pc, mainRet, work,
                   hist, fvars, rdSeen, avars, cvars, mvars>>

\* One Read call on reader r with room for n items: os.File.Read at the file
\* offset, which it advances; end of file when nothing is left.
Read(r, n) ==
    /\ StreamInUse
    /\ rdState[r] = "open"
    /\ sess.open /\ dataExists
    /\ LET avail == Len(dataContent) - sess.offset
           k == IF n < avail THEN n ELSE avail
       IN IF avail <= 0
          THEN /\ rdState' = [rdState EXCEPT ![r] = "eof"]
               /\ UNCHANGED <<rdSeen, sess>>
          ELSE /\ rdSeen' = [rdSeen EXCEPT ![r] =
                      @ \o SubSeq(dataContent, sess.offset + 1, sess.offset + k)]
               /\ sess' = [sess EXCEPT !.offset = @ + k]
               /\ UNCHANGED rdState
    /\ UNCHANGED <<disk, procState, phase, hasSess, mutex, pc, mainRet, work,
                   hist, fvars, avars, cvars, mvars>>

\* NewDataWriter called on the active session: the same seek to the start.
\* (One such call is modelled.)
NewDataWriterActive ==
    /\ StreamInUse
    /\ ~rewound
    /\ sess' = [sess EXCEPT !.offset = 0]
    /\ rewound' = TRUE
    /\ UNCHANGED <<disk, procState, phase, hasSess, mutex, pc, mainRet, work,
                   wrote, lastAck, afterAck, delCalled, closedHdr, endKind,
                   loadVer, migrated, fvars, xvars>>

\* sessionDataFP.Write of one item through a writer of the active session:
\* dirty is set and the file is written at its offset; the write fails on a
\* file opened read-only (a loaded session).
WriteActive(item) ==
    /\ StreamInUse
    /\ rewound
    /\ sess.offset < MaxItems
    /\ IF sess.open /\ sess.mode = "rw" /\ dataExists
       THEN /\ dataContent' = WriteAt(dataContent, sess.offset, item)
            /\ sess' = [sess EXCEPT !.dirty = TRUE, !.offset = @ + 1]
       ELSE /\ sess' = [sess EXCEPT !.dirty = TRUE]
            /\ UNCHANGED dataContent
    /\ UNCHANGED <<hdrExists, hdrBytes, dataExists, dataDurable, procState, phase,
                   hasSess, mutex, pc, mainRet, work, hist, fvars, xvars>>

\* --------------------------------------------- request authenticator: texts

\* A Go string is modelled as a text: a sequence of tokens, the empty string
\* being <<>>; concatenation is \o.

\* Every name the model sorts, in the byte order sort.Strings compares by.
ByteOrder ==
    <<"AWSAccessKeyId", "Expires", "GoogleAccessId", "Signature",
      "X-Amz-Algorithm", "X-Amz-Credential", "X-Amz-Date",
      "X-Amz-Expires", "X-Amz-Signature", "X-Amz-SignedHeaders", "acl",
      "authorization", "content-length", "content-md5", "content-type",
      "date", "foo", "host", "location", "logging", "notification",
      "partNumber", "policy", "prefix", "requestPayment",
      "response-cache-control", "response-content-disposition",
      "response-content-encoding", "response-content-language",
      "response-content-type", "response-expires", "torrent",
      "uploadId", "uploads", "user-agent", "versionId", "versioning",
      "versions", "website", "x-amz-acl", "x-amz-content-sha256", "x-amz-date",
      "x-amz-meta">>

RankTable ==
    [s \in {ByteOrder[i] : i \in 1..Len(ByteOrder)} |->
        CHOOSE i \in 1..Len(ByteOrder) : ByteOrder[i] = s]

Rank(s) == RankTable[s]

\* sort.Strings, on a sequence of names.
RECURSIVE SortStrings(_)
SortStrings(s) ==
    IF s = <<>> THEN <<>>
    ELSE LET m == CHOOSE i \in 1..Len(s) :
                      \A j \in 1..Len(s) : Rank(s[i]) <= Rank(s[j])
         IN <<s[m]>> \o SortStrings(SubSeq(s, 1, m - 1) \o SubSeq(s, m + 1, Len(s)))

\* The keys of a map as sort.Strings leaves them.
RECURSIVE SortedKeys(_)
SortedKeys(S) ==
    IF S = {} THEN <<>>
    ELSE LET m == CHOOSE x \in S : \A y \in S : Rank(x) <= Rank(y)
         IN <<m>> \o SortedKeys(S \ {m})

\* strings.Join of the texts ts with the separator sep.
RECURSIVE Join(_, _)
Join(ts, sep) ==
    IF ts = <<>> THEN <<>>
    ELSE IF Len(ts) = 1 THEN ts[1]
    ELSE ts[1] \o <<sep>> \o Join(Tail(ts), sep)

\* The texts ts written one after the other into a buffer.
RECURSIVE Concat(_)
Concat(ts) == IF ts = <<>> THEN <<>> ELSE Head(ts) \o Concat(Tail(ts))

\* strconv.FormatInt(n, 10)
FormatInt(n) == <<ToString(n)>>

\* time.Time.Format with one of the layouts of the package.
Format(t, layout) == <<layout, ToString(t)>>

\* strings.ToLower, on the header names modelled.
ToLower(k) ==
    CASE k = "X-Amz-Meta" -> "x-amz-meta"
      [] k = "X-Amz-Content-Sha256" -> "x-amz-content-sha256"
      [] k = "X-Amz-Date" -> "x-amz-date"
      [] k = "Content-Type" -> "content-type"
      [] k = "Content-Md5" -> "content-md5"
      [] k = "Date" -> "date"
      [] k = "Authorization" -> "authorization"
      [] k = "User-Agent" -> "user-agent"
      [] k = "Content-Length" -> "content-length"
      [] k = "Host" -> "host"
      [] k = "X-Amz-Acl" -> "x-amz-acl"
      [] OTHER -> k

\* http.CanonicalHeaderKey, on the header names modelled.
CanonicalHeaderKey(k) ==
    CASE k = "x-amz-meta" -> "X-Amz-Meta"
      [] k = "x-amz-content-sha256" -> "X-Amz-Content-Sha256"
      [] k = "x-amz-date" -> "X-Amz-Date"
      [] k = "content-type" -> "Content-Type"
      [] k = "Content-MD5" -> "Content-Md5"
      [] k = "content-md5" -> "Content-Md5"
      [] k = "date" -> "Date"
      [] k = "authorization" -> "Authorization"
      [] k = "user-agent" -> "User-Agent"
      [] k = "content-length" -> "Content-Length"
      [] k = "host" -> "Host"
      [] k = "x-amz-acl" -> "X-Amz-Acl"
      [] OTHER -> k

\* http.Header.Get: the first value stored under the canonical form of key.
HeaderGet(h, key) ==
    LET ck == CanonicalHeaderKey(key)
    IN IF ck \in DOMAIN h /\ Len(h[ck]) > 0 THEN h[ck][1] ELSE <<>>

\* http.Header.Set: the canonical form of key now maps to the one value.
HeaderSet(h, key, value) ==
    LET ck == CanonicalHeaderKey(key)
    IN [k \in DOMAIN h \cup {ck} |-> IF k = ck THEN <<value>> ELSE h[k]]

\* The orders in which a range over the header map can visit its keys.
Orders(h) ==
    LET n == Cardinality(DOMAIN h)
    IN {o \in [1..n -> DOMAIN h] : \A i, j \in 1..n : o[i] = o[j] => i = j}

\* url.QueryUnescape, url.QueryEscape and strings.Replace(_, "+", "%20", -1),
\* token by token; "a b" is a value with a space in it.
QueryUnescape(t) == CASE t = "a+b" -> "a b" [] t = "a%20b" -> "a b" [] OTHER -> t
QueryEscape(t) == CASE t = "a b" -> "a+b" [] OTHER -> t
PlusToPercent20(t) == CASE t = "a+b" -> "a%20b" [] OTHER -> t
QueryUnescapeText(text) == [i \in 1..Len(text) |-> QueryUnescape(text[i])]
QueryEscapeText(text) == [i \in 1..Len(text) |-> QueryEscape(text[i])]
PlusToPercent20Text(text) == [i \in 1..Len(text) |-> PlusToPercent20(text[i])]

\* A raw query string is the sequence of its '&'-separated parameters, each
\* [key, val, eq]: "key=val" when eq, the bare "key" when not.

\* url.ParseQuery (URL.Query): key -> its unescaped values, in order.
ParseQuery(raw) ==
    [k \in {raw[i].key : i \in DOMAIN raw} |->
        LET ps == SelectSeq(raw, LAMBDA p : p.key = k)
        IN [i \in 1..Len(ps) |-> QueryUnescapeText(ps[i].val)]]

\* url.Values.Set
QuerySet(q, k, v) == [x \in DOMAIN q \cup {k} |-> IF x = k THEN <<v>> ELSE q[x]]

\* url.Values.Encode: "key=value" for every value, sorted by key.
Encode(q) ==
    LET keys == SortedKeys(DOMAIN q)
    IN Concat([i \in 1..Len(keys) |->
          [j \in 1..Len(q[keys[i]]) |->
              [key |-> keys[i], val |-> QueryEscapeText(q[keys[i]][j]),
               eq |-> TRUE]]])

\* The raw query as the text it is.
RawQueryText(raw) ==
    Join([i \in 1..Len(raw) |->
            <<raw[i].key>> \o (IF raw[i].eq THEN <<"=">> \o raw[i].val ELSE <<>>)],
         "&")

\* URL.String()
URLString(u) == <<u.Scheme, "://", u.Host, u.Path>>
                \o (IF u.RawQuery = <<>> THEN <<>> ELSE <<"?">> \o RawQueryText(u.RawQuery))

\* sumHMAC, sum256 and the encoders: injective in their arguments.
sumHMAC(key, data) == <<"hmac(">> \o key \o <<",">> \o data \o <<")">>
sum256(data) == <<"sha256(">> \o data \o <<")">>
HexEncode(b) == <<"hex(">> \o b \o <<")">>
Base64Encode(b) == <<"base64(">> \o b \o <<")">>

\* getURLEncodedPath
getURLEncodedPath(path) == IF path = "" THEN <<>> ELSE <<"urlencoded(", path, ")">>

\* ------------------------------------------------ request authenticator: V4

authHeader == "AWS4-HMAC-SHA256"
iso8601DateFormat == "20060102T150405Z"
yyyymmdd == "20060102"

ignoredHeadersMutSignsAuthorization == {"Content-Type", "Content-Length", "User-Agent"}

ignoredHeaders == {"Authorization", "Content-Type", "Content-Length", "User-Agent"}

\* Config.isAnonymous
isAnonymous(c) == c.AccessKeyID = "" \/ c.SecretAccessKey = ""

\* Request.Get and Request.Set: the request's header.
Get(r, key) == HeaderGet(r.Header, key)
Set(r, key, value) == [r EXCEPT !.Header = HeaderSet(r.Header, key, value)]

getSigningKey(secret, region, t) ==
    LET date == sumHMAC(<<"AWS4", secret>>, Format(t, yyyymmdd))
        regionbytes == sumHMAC(date, <<region>>)
        service == sumHMAC(regionbytes, <<"s3">>)
    IN sumHMAC(service, <<"aws4_request">>)

getSignature(signingKey, stringToSign) == HexEncode(sumHMAC(signingKey, stringToSign))

getScope(region, t) ==
    Join(<<Format(t, yyyymmdd), <<region>>, <<"s3">>, <<"aws4_request">>>>, "/")

getCredential(accessKeyID, region, t) == <<accessKeyID, "/">> \o getScope(region, t)

getHashedPayload(r, exp) ==
    IF exp # 0 THEN <<"UNSIGNED-PAYLOAD">>
    ELSE HeaderGet(r.Header, "X-Amz-Content-Sha256")

\* The names the two loops over r.req.Header collect, visiting the keys in
\* the given order, with "host" appended, sorted.
SignedNames(r, order) ==
    LET kept == SelectSeq(order, LAMBDA k : CanonicalHeaderKey(k) \notin ignoredHeaders)
    IN SortStrings([i \in 1..Len(kept) |-> ToLower(kept[i])] \o <<"host">>)

\* getCanonicalHeaders, the map visited in the given order: vals keeps, for
\* each lower-cased name, the values of the key visited last.
getCanonicalHeaders(r, order) ==
    LET kept == SelectSeq(order, LAMBDA k : CanonicalHeaderKey(k) \notin ignoredHeaders)
        headers == SignedNames(r, order)
        vals(lk) ==
            LET idx == {i \in 1..Len(kept) : ToLower(kept[i]) = lk}
            IN IF idx = {} THEN <<>>
               ELSE r.Header[kept[CHOOSE i \in idx : \A j \in idx : j <= i]]
        line(k) == <<k, ":">> \o (IF k = "host" THEN <<r.URL.Host>> ELSE <<>>)
                   \o Join(vals(k), ",") \o <<"\n">>
    IN Concat([i \in 1..Len(headers) |-> line(headers[i])])

\* getSignedHeaders
getSignedHeadersMutNoHost(r, order) ==
    LET kept == SelectSeq(order, LAMBDA k : CanonicalHeaderKey(k) \notin ignoredHeaders)
        headers == SortStrings([i \in 1..Len(kept) |-> ToLower(kept[i])])
    IN Join([i \in 1..Len(headers) |-> <<headers[i]>>], ";")

getSignedHeaders(r, order) ==
    LET headers == SignedNames(r, order)
    IN Join([i \in 1..Len(headers) |-> <<headers[i]>>], ";")

\* getCanonicalRequest: r.req.URL.RawQuery is first replaced by its re-encoded
\* form; the result is the request after that and the canonical request.
getCanonicalRequest(r, exp, order) ==
    LET enc == Encode(ParseQuery(r.URL.RawQuery))
        raw == [i \in 1..Len(enc) |->
                   [enc[i] EXCEPT !.val = PlusToPercent20Text(@)]]
        r2 == [r EXCEPT !.URL.RawQuery = raw]
    IN [req |-> r2,
        text |-> Join(<< <<r2.Method>>,
                         getURLEncodedPath(r2.URL.Path),
                         RawQueryText(r2.URL.RawQuery),
                         getCanonicalHeaders(r2, order),
                         getSignedHeaders(r2, order),
                         getHashedPayload(r2, exp) >>, "\n")]

getStringToSignV4(canonicalRequest, region, t) ==
    <<authHeader, "\n">> \o Format(t, iso8601DateFormat) \o <<"\n">>
    \o getScope(region, t) \o <<"\n">> \o HexEncode(sum256(canonicalRequest))

\* PreSignV4 on request r: the request it leaves, what it returns, and the
\* number of HMACs it computed.
PreSignV4Of(r, c, exp, t, order) ==
    IF isAnonymous(c)
    THEN [req |-> r, url |-> <<>>, err |-> TRUE, hmacs |-> 0, canon |-> <<>>]
    ELSE LET credential == getCredential(c.AccessKeyID, c.Region, t)
             signingKey == getSigningKey(c.SecretAccessKey, c.Region, t)
             signedHeaders == getSignedHeaders(r, order)
             q1 == QuerySet(ParseQuery(r.URL.RawQuery), "X-Amz-Algorithm", <<authHeader>>)
             q2 == QuerySet(q1, "X-Amz-Date", Format(t, iso8601DateFormat))
             q3 == QuerySet(q2, "X-Amz-Expires", FormatInt(exp))
             q4 == QuerySet(q3, "X-Amz-SignedHeaders", signedHeaders)
             q5 == QuerySet(q4, "X-Amz-Credential", credential)
             r1 == [r EXCEPT !.URL.RawQuery = Encode(q5)]
             cr == getCanonicalRequest(r1, exp, order)
             signature == getSignature(signingKey, getStringToSignV4(cr.text, c.Region, t))
             r3 == [cr.req EXCEPT !.URL.RawQuery =
                       Append(@, [key |-> "X-Amz-Signature", val |-> signature, eq |-> TRUE])]
         IN [req |-> r3, url |-> URLString(r3.URL), err |-> FALSE, hmacs |-> 5,
             canon |-> cr.text]

\* SignV4 on request r; order is an order of the header map once X-Amz-Date
\* is set.
SignV4Of(r, c, exp, t, order) ==
    LET r1 == Set(r, "X-Amz-Date", Format(t, iso8601DateFormat))
        signedHeaders == getSignedHeaders(r1, order)
        cr == getCanonicalRequest(r1, exp, order)
        stringToSign == getStringToSignV4(cr.text, c.Region, t)
        credential == getCredential(c.AccessKeyID, c.Region, t)
        signingKey == getSigningKey(c.SecretAccessKey, c.Region, t)
        signature == getSignature(signingKey, stringToSign)
        auth == Join(<< <<authHeader, " Credential=">> \o credential,
                        <<"SignedHeaders=">> \o signedHeaders,
                        <<"Signature=">> \o signature >>, ", ")
    IN [req |-> Set(cr.req, "Authorization", auth), url |-> <<>>, err |-> FALSE,
        hmacs |-> 5, canon |-> cr.text]

\* ------------------------------------------------ request authenticator: V2

\* regions: host suffix -> region name.
regions == [k \in {"s3.amazonaws.com"} |-> "us-east-1"]

\* strings.TrimSuffix(host, "." + k), on the hosts modelled.
TrimSuffix(host, k) ==
    IF host = "bucket.s3.amazonaws.com" /\ k = "s3.amazonaws.com" THEN "bucket"
    ELSE host

\* The path both V2 signers sign: with virtual-hosted style, "/" + bucket +
\* path for the host suffix of the configured region (nothing when no suffix
\* is known for that region), else the path.
EncodedPathV2(r, c) ==
    IF c.isVirtualHostedStyle
    THEN IF \E k \in DOMAIN regions : regions[k] = c.Region
         THEN LET k == CHOOSE k \in DOMAIN regions : regions[k] = c.Region
              IN <<"urlencoded(", "/", TrimSuffix(r.URL.Host, k), r.URL.Path, ")">>
         ELSE <<>>
    ELSE getURLEncodedPath(r.URL.Path)

\* resourceList, as the package declares it.
resourceListDecl ==
    <<"acl", "location", "logging", "notification", "partNumber", "policy",
      "response-content-type", "response-content-language", "response-expires",
      "response-cache-control", "response-content-disposition",
      "response-content-encoding", "requestPayment", "torrent", "uploadId",
      "uploads", "versionId", "versioning", "versions", "website">>

writeDefaultHeaders(r) ==
    <<r.Method, "\n">> \o HeaderGet(r.Header, "Content-MD5") \o <<"\n">>
    \o HeaderGet(r.Header, "Content-Type") \o <<"\n">>
    \o HeaderGet(r.Header, "Date") \o <<"\n">>

\* strings.HasPrefix(lk, "x-amz"), on the lower-cased names modelled.
HasPrefixXAmz(lk) == lk \in {"x-amz-meta", "x-amz-content-sha256", "x-amz-date"}

\* writeCanonicalizedHeaders, the map visited in the given order.
writeCanonicalizedHeaders(r, order) ==
    LET kept == SelectSeq(order, LAMBDA k : HasPrefixXAmz(ToLower(k)))
        protoHeaders == SortStrings([i \in 1..Len(kept) |-> ToLower(kept[i])])
        vals(lk) ==
            LET idx == {i \in 1..Len(kept) : ToLower(kept[i]) = lk}
            IN r.Header[kept[CHOOSE i \in idx : \A j \in idx : j <= i]]
        line(k) == <<k, ":">> \o Join(vals(k), ",") \o <<"\n">>
    IN Concat([i \in 1..Len(protoHeaders) |-> line(protoHeaders[i])])

\* The query part writeCanonicalizedResource writes, looping over the list rl.
CanonicalizedQuery(r, rl) ==
    IF r.URL.RawQuery = <<>> THEN <<>>
    ELSE LET vals == ParseQuery(r.URL.RawQuery)
             hits == SelectSeq(rl, LAMBDA res : res \in DOMAIN vals /\ Len(vals[res]) > 0)
             entry(n) ==
                 <<IF n = 1 THEN "?" ELSE "&", hits[n]>>
                 \o (IF Len(vals[hits[n]][1]) > 0
                     THEN <<"=">> \o QueryEscapeText(vals[hits[n]][1])
                     ELSE <<>>)
         IN Concat([n \in 1..Len(hits) |-> entry(n)])

writeCanonicalizedResourceMutNoAllowList(r, c, rl) ==
    EncodedPathV2(r, c)
    \o CanonicalizedQuery(r, SortedKeys({r.URL.RawQuery[i].key : i \in DOMAIN r.URL.RawQuery}))

\* writeCanonicalizedResource: what it writes, rl being resourceList when it
\* is called; the package's list is sorted in place first.
writeCanonicalizedResource(r, c, rl) ==
    EncodedPathV2(r, c) \o CanonicalizedQuery(r, SortStrings(rl))

getStringToSignV2(r, c, rl, order) ==
    writeDefaultHeaders(r) \o writeCanonicalizedHeaders(r, order)
    \o writeCanonicalizedResource(r, c, rl)

\* SignV2 on request r, the date header set when absent; order is an order of
\* the header map after that.
SignV2Date(r, t) ==
    IF Get(r, "Date") = <<>> THEN Set(r, "Date", Format(t, "http.TimeFormat")) ELSE r

SignV2Of(r, c, rl, t, order) ==
    LET r1 == SignV2Date(r, t)
        stringToSign == getStringToSignV2(r1, c, rl, order)
        hm == sumHMAC(<<c.SecretAccessKey>>, stringToSign)
        auth == <<"AWS ", c.AccessKeyID, ":">> \o Base64Encode(hm)
    IN [req |-> [r1 EXCEPT !.Header = HeaderSet(r1.Header, "Authorization", auth)],
        url |-> <<>>, err |-> FALSE, hmacs |-> 1, canon |-> <<>>]

PreSignV2MutNoAnonymousCheck(r, c, exp, t) ==
    LET r1 == SignV2Date(r, t)
            path == EncodedPathV2(r1, c)
            epochExpires == t + exp
            stringToSign == <<r1.Method, "\n", "\n", "\n">> \o FormatInt(epochExpires)
                            \o <<"\n">> \o path
            signature == Base64Encode(sumHMAC(<<c.SecretAccessKey>>, stringToSign))
            q0 == ParseQuery(r1.URL.RawQuery)
            q1 == IF c.Region = "google"
                  THEN QuerySet(q0, "GoogleAccessId", <<c.AccessKeyID>>)
                  ELSE QuerySet(q0, "AWSAccessKeyId", <<c.AccessKeyID>>)
            q2 == QuerySet(q1, "Expires", FormatInt(epochExpires))
            q3 == QuerySet(q2, "Signature", signature)
            r2 == [r1 EXCEPT !.URL.RawQuery = Encode(q3)]
        IN [req |-> r2, url |-> URLString(r2.URL), err |-> FALSE, hmacs |-> 1,
            canon |-> <<>>]

\* PreSignV2 on request r.
PreSignV2Of(r, c, exp, t) ==
    IF isAnonymous(c)
    THEN [req |-> r, url |-> <<>>, err |-> TRUE, hmacs |-> 0, canon |-> <<>>]
    ELSE LET r1 == SignV2Date(r, t)
             path == EncodedPathV2(r1, c)
             epochExpires == t + exp
             stringToSign == <<r1.Method, "\n", "\n", "\n">> \o FormatInt(epochExpires)
                             \o <<"\n">> \o path
             signature == Base64Encode(sumHMAC(<<c.SecretAccessKey>>, stringToSign))
             q0 == ParseQuery(r1.URL.RawQuery)
             q1 == IF c.Region = "google"
                   THEN QuerySet(q0, "GoogleAccessId", <<c.AccessKeyID>>)
                   ELSE QuerySet(q0, "AWSAccessKeyId", <<c.AccessKeyID>>)
             q2 == QuerySet(q1, "Expires", FormatInt(epochExpires))
             q3 == QuerySet(q2, "Signature", signature)
             r2 == [r1 EXCEPT !.URL.RawQuery = Encode(q3)]
         IN [req |-> r2, url |-> URLString(r2.URL), err |-> FALSE, hmacs |-> 1,
            canon |-> <<>>]

\* ---------------------------------------- request authenticator: the calls

\* Header names a request may carry, each with its value.
HeaderKeys == {"X-Amz-Meta", "x-amz-meta", "X-Amz-Content-Sha256",
               "x-amz-content-sha256", "Content-Type", "content-type", "Date"}

HeaderValue(k) ==
    CASE k = "X-Amz-Meta" -> <<"Va">>
      [] k = "x-amz-meta" -> <<"vb">>
      [] k = "X-Amz-Content-Sha256" -> <<"hashA">>
      [] k = "x-amz-content-sha256" -> <<"hashB">>
      [] k = "Content-Type" -> <<"text/plain">>
      [] k = "content-type" -> <<"text/html">>
      [] k = "X-Amz-Date" -> <<iso8601DateFormat, "999">>
      [] k = "Authorization" -> <<"AWS old">>
      [] k = "User-Agent" -> <<"mc">>
      [] k = "Content-Length" -> <<"12">>
      [] k = "Host" -> <<"other.example.com">>
      [] OTHER -> <<"Mon, 02 Jan 2006 15:04:05 GMT">>

\* Most headers on a request before it is signed.
MaxHeaders == 2

HeaderMaps ==
    {[k \in S |-> <<HeaderValue(k)>>] :
        S \in {T \in SUBSET HeaderKeys : Cardinality(T) <= MaxHeaders}}

Param(k, v) == [key |-> k, val |-> <<v>>, eq |-> TRUE]
EmptyParam(k) == [key |-> k, val |-> <<>>, eq |-> TRUE]
BareParam(k) == [key |-> k, val |-> <<>>, eq |-> FALSE]

\* Raw query strings a request may carry.
Queries ==
    {<<>>,
     <<Param("uploadId", "abc"), Param("foo", "bar")>>,
     <<Param("foo", "bar"), Param("uploadId", "abc")>>,
     <<BareParam("acl")>>,
     <<Param("versionId", "a+b")>>,
     <<BareParam("uploads"), Param("prefix", "a%20b")>>,
     <<Param("uploadId", "abc"), Param("uploadId", "xyz")>>,
     <<Param("response-content-type", "abc"), EmptyParam("requestPayment")>>}

Requests ==
    {[Method |-> "GET",
      URL |-> [Scheme |-> "https", Host |-> "bucket.s3.amazonaws.com",
               Path |-> "/obj", RawQuery |-> q],
      Header |-> h] : q \in Queries, h \in HeaderMaps}

Configs ==
    {[AccessKeyID |-> cr[1], SecretAccessKey |-> cr[2], Region |-> rg,
      isVirtualHostedStyle |-> vh] :
        cr \in {<<"", "">>, <<"AK", "SK">>}, rg \in {"us-east-1", "google"},
        vh \in BOOLEAN}

\* r.expires, in seconds; time.Now(), as seconds since the epoch.
Expiries == {0, 60}
Times == {1000}

\* A request not signed yet (a request is signed once per send).
Unsigned == calls = <<>>

\* One call: the request is replaced by the one the call leaves.
Called(name, res, t) ==
    /\ calls' = Append(calls, name)
    /\ reqBefore' = req
    /\ req' = res.req
    /\ out' = [url |-> res.url, err |-> res.err]
    /\ hmacs' = res.hmacs
    /\ canonical' = res.canon
    /\ now' = t
    /\ UNCHANGED <<reqNew, cfg, expires, fvars, svars, rvars, cvars, mvars>>

PreSignV4 ==
    /\ Unsigned
    /\ \E t \in Times : \E order \in Orders(req.Header) :
        /\ \E res \in {PreSignV4Of(req, cfg, expires, t, order)} : Called("PreSignV4", res, t)
        /\ UNCHANGED resourceList

SignV4Call ==
    \E t \in Times :
      \E order \in Orders(Set(req, "X-Amz-Date", Format(t, iso8601DateFormat)).Header) :
        /\ \E res \in {SignV4Of(req, cfg, expires, t, order)} : Called("SignV4", res, t)
        /\ UNCHANGED resourceList

SignV4 == Unsigned /\ SignV4Call

PreSignV2 ==
    /\ Unsigned
    /\ \E t \in Times :
        /\ \E res \in {PreSignV2Of(req, cfg, expires, t)} : Called("PreSignV2", res, t)
        /\ UNCHANGED resourceList

\* SignV2; sort.Strings(resourceList) sorts the package's list in place.
SignV2Call ==
    \E t \in Times : \E order \in Orders(SignV2Date(req, t).Header) :
        /\ \E res \in {SignV2Of(req, cfg, resourceList, t, order)} : Called("SignV2", res, t)
        /\ resourceList' = SortStrings(resourceList)

SignV2 == Unsigned /\ SignV2Call

\* ------------------------------- request authenticator: signing once more

\* Header names a request to be header-signed may carry; X-Amz-Acl is stored
\* with an empty value list, every other name with one value.
SignHeaderKeys == {"X-Amz-Date", "Date", "Authorization", "content-type",
                   "User-Agent", "Content-Length", "Host", "X-Amz-Acl",
                   "X-Amz-Meta", "x-amz-meta", "X-Amz-Content-Sha256"}

\* Most headers on such a request before it is signed.
MaxSignHeaders == 2

SignHeaderMaps ==
    {[k \in S |-> IF k = "X-Amz-Acl" THEN <<>> ELSE <<HeaderValue(k)>>] :
        S \in {T \in SUBSET SignHeaderKeys : Cardinality(T) <= MaxSignHeaders}}

SignRequests ==
    {[Method |-> "GET",
      URL |-> [Scheme |-> "https", Host |-> "bucket.s3.amazonaws.com",
               Path |-> "/obj", RawQuery |-> q],
      Header |-> h] : q \in {<<>>, <<Param("versionId", "a+b")>>},
                      h \in SignHeaderMaps}

\* Header names a request that is signed more than once may carry.
ResignHeaderKeys == {"Authorization", "X-Amz-Date", "Date", "X-Amz-Meta",
                     "x-amz-meta"}

\* Most headers on such a request before it is signed first.
MaxResignHeaders == 2

ResignRequests ==
    {[Method |-> "GET",
      URL |-> [Scheme |-> "https", Host |-> "bucket.s3.amazonaws.com",
               Path |-> "/obj", RawQuery |-> q],
      Header |-> [k \in S |-> <<HeaderValue(k)>>]] :
        q \in {<<>>, <<Param("versionId", "a+b")>>},
        S \in {T \in SUBSET ResignHeaderKeys : Cardinality(T) <= MaxResignHeaders}}

\* Most signing calls made on one request.
MaxCalls == 2

\* A request that was header-signed and is signed again before it is sent.
Resigned ==
    /\ calls # <<>>
    /\ Len(calls) < MaxCalls
    /\ \A i \in 1..Len(calls) : calls[i] \in {"SignV4", "SignV2"}

ReSignV4 == Resigned /\ SignV4Call

ReSignV2 == Resigned /\ SignV2Call

\* ------------------------------- request authenticator: concurrent SignV2

\* Queries of the requests the goroutines sign, by their keys.
GoQueries == {{"uploadId", "foo"}, {"response-content-type", "requestPayment"}}

\* sort.Strings(resourceList) by goroutine g sorts the package's list in
\* place: for each i, the name at i is moved down by swaps with its left
\* neighbour while it is smaller (an insertion sort). A swap reads the two
\* elements and then writes them back exchanged; nothing orders the reads and
\* writes of one goroutine with those of another.
Less(j) == Rank(resourceList[j]) < Rank(resourceList[j - 1])

\* Where the sort of goroutine g swaps next: at j while the name at j is
\* smaller than its neighbour, else at the next i whose name is; <<0, 0>>
\* when there is none. (The comparisons that lead to no swap are taken
\* together with the one that does.)
NextSwap(g) ==
    IF gsort[g][2] > 1 /\ Less(gsort[g][2]) THEN gsort[g]
    ELSE LET rest == {i \in (gsort[g][1] + 1)..Len(resourceList) : Less(i)}
         IN IF rest = {} THEN <<0, 0>>
            ELSE LET i == CHOOSE i \in rest : \A k \in rest : i <= k IN <<i, i>>

\* The swap reads the two names.
GoSwapRead(g) ==
    /\ gpc[g] = "sort"
    /\ NextSwap(g) # <<0, 0>>
    /\ gsort' = [gsort EXCEPT ![g] = NextSwap(g)]
    /\ gtmp' = [gtmp EXCEPT ![g] = <<resourceList[NextSwap(g)[2] - 1],
                                     resourceList[NextSwap(g)[2]]>>]
    /\ gpc' = [gpc EXCEPT ![g] = "swap"]
    /\ UNCHANGED <<gidx, gkeys, gout, avars, fvars, svars, rvars, mvars>>

\* The swap writes both, and the inner loop moves down.
GoSwapWrite(g) ==
    /\ gpc[g] = "swap"
    /\ resourceList' = [resourceList EXCEPT ![gsort[g][2] - 1] = gtmp[g][2],
                                            ![gsort[g][2]] = gtmp[g][1]]
    /\ gsort' = [gsort EXCEPT ![g] = <<@[1], @[2] - 1>>]
    /\ gpc' = [gpc EXCEPT ![g] = "sort"]
    /\ gtmp' = [gtmp EXCEPT ![g] = <<>>]
    /\ UNCHANGED <<gidx, gkeys, gout, req, reqBefore, reqNew, cfg, expires, now,
                   calls, out, hmacs, canonical, fvars, svars, rvars, mvars>>

\* The sort returns: nothing is left to swap.
GoSortReturn(g) ==
    /\ gpc[g] = "sort"
    /\ NextSwap(g) = <<0, 0>>
    /\ gpc' = [gpc EXCEPT ![g] = "scan"]
    /\ gidx' = [gidx EXCEPT ![g] = 1]
    /\ UNCHANGED <<gsort, gtmp, gkeys, gout, avars, fvars, svars, rvars, mvars>>

\* The loop over resourceList by goroutine g, from its index up to and
\* including the next name its query has, which is written; the loop ends
\* when no such name is left. (The iterations that write nothing are taken
\* together with the one that follows them.)
GoScan(g) ==
    /\ gpc[g] = "scan"
    /\ LET hits == {i \in gidx[g]..Len(resourceList) : resourceList[i] \in gkeys[g]}
       IN IF hits = {}
          THEN /\ gpc' = [gpc EXCEPT ![g] = "done"]
               /\ UNCHANGED <<gidx, gout>>
          ELSE LET i == CHOOSE i \in hits : \A k \in hits : i <= k
               IN /\ gout' = [gout EXCEPT ![g] = Append(@, resourceList[i])]
                  /\ gidx' = [gidx EXCEPT ![g] = i + 1]
                  /\ UNCHANGED gpc
    /\ UNCHANGED <<gsort, gtmp, gkeys, avars, fvars, svars, rvars, mvars>>

\* No goroutine is signing.
GoIdle ==
    /\ gpc = [g \in Goroutines |-> "done"]
    /\ gsort = [g \in Goroutines |-> <<1, 1>>]
    /\ gtmp = [g \in Goroutines |-> <<>>]
    /\ gidx = [g \in Goroutines |-> 1]
    /\ gkeys = [g \in Goroutines |-> {}]
    /\ gout = [g \in Goroutines |-> <<>>]

\* ------------------------------------------------------------- specifications

\* The memory of a process that has not created or loaded a session.
MemoryInit ==
    /\ phase = "start"
    /\ hasSess = FALSE
    /\ sess = NoSess
    /\ mutex = "free"
    /\ pc = [t \in Threads |-> "idle"]
    /\ cur = [w \in Workers |-> 0]
    /\ mainRet = "none"
    /\ plan = <<>>
    /\ planCp = ""
    /\ skip = <<>>
    /\ nextIdx = 1

HistInit ==
    /\ wrote = <<>>
    /\ rewound = FALSE
    /\ lastAck = "-"
    /\ afterAck = {}
    /\ delCalled = FALSE
    /\ closedHdr = <<>>
    /\ endKind = "none"
    /\ loadVer = "-"
    /\ migrated = "no"

\* No session on disk: the first process of the session's life.
DiskEmpty ==
    /\ procState = "first"
    /\ hdrExists = FALSE
    /\ hdrBytes = <<>>
    /\ dataExists = FALSE
    /\ dataContent = <<>>
    /\ dataDurable = <<>>
    /\ completed = {}

\* A session left on disk by a process of an older release (header version
\* "5"): its items, the first k of them completed, the last of these as its
\* checkpoint.
DiskOld ==
    \E items \in SeqsUpTo(SessionItems, MaxItems) \ {<<>>} :
      \E k \in 0..Len(items) :
        /\ procState = "restarted"
        /\ hdrExists = TRUE
        /\ hdrBytes = Marshal([Version |-> "5",
                               LastCopied |-> IF k = 0 THEN "" ELSE items[k]])
        /\ dataExists = TRUE
        /\ dataContent = items
        /\ dataDurable = items
        /\ completed = {items[i] : i \in 1..k}

FilterIdle ==
    /\ fState = "none"
    /\ lastCopied = ""
    /\ copied = TRUE
    /\ replay = <<>>
    /\ rets = <<>>
    /\ fFresh = FALSE

\* No reader has been handed out.
ReadersIdle ==
    /\ rdState = [r \in Readers |-> "none"]
    /\ rdSeen = [r \in Readers |-> <<>>]

\* No migration has run; the session directory is empty.
MigrateIdle ==
    /\ store = [id \in SessionIDs |-> NoFiles]
    /\ migOrder = <<>>
    /\ migState = "idle"

\* No signing call has been made; the request is any request.
CallsInit ==
    /\ reqBefore = req
    /\ reqNew = req
    /\ now = 0
    /\ calls = <<>>
    /\ out = [url |-> <<>>, err |-> FALSE]
    /\ hmacs = 0
    /\ resourceList = resourceListDecl
    /\ canonical = <<>>

\* The authenticator is not used.
SignIdle ==
    /\ req = [Method |-> "GET",
              URL |-> [Scheme |-> "https", Host |-> "bucket.s3.amazonaws.com",
                       Path |-> "/obj", RawQuery |-> <<>>],
              Header |-> <<>>]
    /\ cfg = [AccessKeyID |-> "", SecretAccessKey |-> "", Region |-> "us-east-1",
              isVirtualHostedStyle |-> FALSE]
    /\ expires = 0
    /\ CallsInit

Init ==
    /\ MemoryInit
    /\ HistInit
    /\ DiskEmpty
    /\ FilterIdle
    /\ ReadersIdle
    /\ MigrateIdle
    /\ GoIdle
    /\ SignIdle

\* Several workers transfer the items of a session created by this process,
\* while the main thread may end the session; the process may stop at any
\* point and a second process resume the session.
Next ==
    \/ newSessionV6
    \/ loadSessionV6
    \/ \E item \in SessionItems : Write(item)
    \/ StartTransfer
    \/ \E w \in Workers : SaveSync(w)
    \/ \E w \in Workers : SaveWrite(w)
    \/ CloseFP
    \/ CloseWrite
    \/ DeleteData
    \/ DeleteHeader
    \/ DeleteReturn
    \/ \E w \in Workers : StartItem(w)
    \/ \E w \in Workers : FinishItem(w)
    \/ \E w \in Workers : SetLastCopied(w)
    \/ \E kind \in {"kill", "power"} : Crash(kind)

Spec == Init /\ [][Next]_vars

\* The life of a session driven by the main thread alone: created or found on
\* disk, migrated, populated, saved, closed or deleted, and loaded again.
InitLife ==
    /\ MemoryInit
    /\ HistInit
    /\ DiskEmpty \/ DiskOld
    /\ FilterIdle
    /\ ReadersIdle
    /\ MigrateIdle
    /\ GoIdle
    /\ SignIdle

NextLife ==
    \/ newSessionV6
    \/ loadSessionV6
    \/ migrateSessionV5ToV6
    \/ NewDataWriter
    \/ \E item \in SessionItems : Write(item)
    \/ StartTransfer
    \/ SaveSync("main")
    \/ SaveWrite("main")
    \/ CloseFP
    \/ CloseWrite
    \/ DeleteData
    \/ DeleteHeader
    \/ DeleteReturn
    \/ \E kind \in {"kill", "power"} : Crash(kind)

SpecLife == InitLife /\ [][NextLife]_vars

FilterInit ==
    /\ fState = "none"
    /\ lastCopied = ""
    /\ copied = TRUE
    /\ replay \in SeqsUpTo(URLs, MaxReplay)
    /\ rets = <<>>
    /\ fFresh = FALSE
    /\ MemoryInit
    /\ HistInit
    /\ DiskEmpty
    /\ ReadersIdle
    /\ MigrateIdle
    /\ GoIdle
    /\ SignIdle

FilterNext ==
    \/ \E c \in URLs : isCopiedFactory(c)
    \/ isCopiedFactoryFresh
    \/ CallIsCopied

SpecFilter == FilterInit /\ [][FilterNext]_vars

\* Replay: a session created and populated by this process, or found on disk
\* and loaded, becomes active, and two readers of its data stream are
\* consumed in any interleaving.
NextReplay ==
    \/ newSessionV6
    \/ loadSessionV6
    \/ \E item \in SessionItems : Write(item)
    \/ StartTransfer
    \/ \E r \in Readers : NewDataReader(r)
    \/ \E r \in Readers : \E n \in 1..MaxChunk : Read(r, n)

SpecReplay == InitLife /\ [][NextReplay]_vars

\* The data stream over the life of the session: population, saves, the
\* transition to active, then readers, writers and Close on the active session.
NextStream ==
    \/ newSessionV6
    \/ loadSessionV6
    \/ \E item \in SessionItems : Write(item)
    \/ SaveSync("main")
    \/ SaveWrite("main")
    \/ StartTransfer
    \/ \E r \in Readers : NewDataReader(r)
    \/ \E r \in Readers : \E n \in 1..MaxChunk : Read(r, n)
    \/ NewDataWriterActive
    \/ \E item \in SessionItems : WriteActive(item)
    \/ CloseFP
    \/ CloseWrite

SpecStream == InitLife /\ [][NextStream]_vars

\* Signing: one request, one configuration, and the signing calls made on it.
InitSign ==
    /\ req \in Requests
    /\ cfg \in Configs
    /\ expires \in Expiries
    /\ CallsInit
    /\ MemoryInit
    /\ HistInit
    /\ DiskEmpty
    /\ FilterIdle
    /\ ReadersIdle
    /\ MigrateIdle
    /\ GoIdle

NextSign ==
    \/ SignV4
    \/ SignV2
    \/ PreSignV4
    \/ PreSignV2

SpecSign == InitSign /\ [][NextSign]_vars

\* Migration: a session directory with any mix of stored sessions.
InitMigrate ==
    /\ store \in [SessionIDs -> StoredSessions]
    /\ migOrder = <<>>
    /\ migState = "idle"
    /\ MemoryInit
    /\ HistInit
    /\ DiskEmpty
    /\ FilterIdle
    /\ ReadersIdle
    /\ SignIdle
    /\ GoIdle

NextMigrate == migrateDirectory

SpecMigrate == InitMigrate /\ [][NextMigrate]_vars

\* Header-signing: one request with credentials, signed once.
InitHdr ==
    /\ req \in SignRequests
    /\ cfg = [AccessKeyID |-> "AK", SecretAccessKey |-> "SK",
              Region |-> "us-east-1", isVirtualHostedStyle |-> FALSE]
    /\ expires \in Expiries
    /\ CallsInit
    /\ MemoryInit
    /\ HistInit
    /\ DiskEmpty
    /\ FilterIdle
    /\ ReadersIdle
    /\ MigrateIdle
    /\ GoIdle

NextHdr ==
    \/ SignV4
    \/ SignV2
    \/ PreSignV4

SpecHdr == InitHdr /\ [][NextHdr]_vars

\* Signing again: one request with credentials, header-signed and, before it
\* is sent, header-signed again.
InitResign ==
    /\ req \in ResignRequests
    /\ cfg = [AccessKeyID |-> "AK", SecretAccessKey |-> "SK",
              Region |-> "us-east-1", isVirtualHostedStyle |-> FALSE]
    /\ expires \in Expiries
    /\ CallsInit
    /\ MemoryInit
    /\ HistInit
    /\ DiskEmpty
    /\ FilterIdle
    /\ ReadersIdle
    /\ MigrateIdle
    /\ GoIdle

NextResign ==
    \/ SignV4
    \/ SignV2
    \/ ReSignV4
    \/ ReSignV2

SpecResign == InitResign /\ [][NextResign]_vars

\* Concurrent signing: every goroutine has entered writeCanonicalizedResource
\* for its own request, in a process that has not signed with V2 before.
InitConc ==
    /\ gpc = [g \in Goroutines |-> "sort"]
    /\ gsort = [g \in Goroutines |-> <<1, 1>>]
    /\ gtmp = [g \in Goroutines |-> <<>>]
    /\ gidx = [g \in Goroutines |-> 1]
    /\ gkeys \in [Goroutines -> GoQueries]
    /\ gout = [g \in Goroutines |-> <<>>]
    /\ SignIdle
    /\ MemoryInit
    /\ HistInit
    /\ DiskEmpty
    /\ FilterIdle
    /\ ReadersIdle
    /\ MigrateIdle

NextConc ==
    \/ \E g \in Goroutines : GoSwapRead(g)
    \/ \E g \in Goroutines : GoSwapWrite(g)
    \/ \E g \in Goroutines : GoSortReturn(g)
    \/ \E g \in Goroutines : GoScan(g)

SpecConc == InitConc /\ [][NextConc]_vars


\* ------------------------------------------------------------------ claims

\* Index of the first occurrence of x in s, 0 when x does not occur.
FirstIndex(s, x) ==
    IF \E i \in 1..Len(s) : s[i] = x
    THEN CHOOSE i \in 1..Len(s) : s[i] = x /\ \A j \in 1..(i - 1) : s[j] # x
    ELSE 0

\* C1: with a non-empty checkpoint that occurs in the replay, the closure
\* returns true for each call up to and including the first occurrence of the
\* checkpoint and false for every later call, also when a later identifier
\* equals the checkpoint again.
C1_SkipUpToCheckpoint ==
    (fState # "none" /\ lastCopied # "" /\ FirstIndex(replay, lastCopied) > 0)
        => \A k \in 1..Len(rets) : rets[k] = (k <= FirstIndex(replay, lastCopied))

C1_Witness ==
    /\ replay = <<"itemA", "itemB", "itemC", "itemD">>
    /\ lastCopied = "itemB"
    /\ rets = <<TRUE, TRUE, FALSE, FALSE>>

\* C2: a filter built from the empty checkpoint returns false on every call,
\* and the header of a freshly created session has the empty checkpoint
\* (HasData is false).
C2_EmptyCheckpointNeverSkips ==
    /\ (fState # "none" /\ lastCopied = "") => \A k \in 1..Len(rets) : rets[k] = FALSE
    /\ (fState # "none" /\ fFresh) => (lastCopied = "" /\ ~HasData(newHeader))

C2_Witness ==
    /\ fFresh
    /\ replay = <<"itemA", "itemB">>
    /\ rets = <<FALSE, FALSE>>

\* The checkpoint stored in the header file.
diskCp == LoadHeader(hdrBytes).LastCopied

\* The answers a resume filter built from cp gives on the replay s when it
\* skips exactly the items up to and including the first occurrence of cp.
SkipsUpTo(cp, s, answers) ==
    /\ Len(answers) = Len(s)
    /\ \A k \in 1..Len(s) : answers[k] = (cp # "" /\ k <= FirstIndex(s, cp))

\* C3: once a Save returned nil with Header.LastCopied = X (and the session was
\* not deleted), at every later point, so wherever the process stops, the
\* header file holds X or a checkpoint flushed after it and, while the first
\* process runs, the durable part of the data stream holds that checkpoint's
\* item; loadSessionV6 in the next process
\* yields that checkpoint, and the resume filter built from it skips exactly
\* the replayed items up to and including it.
C3_CheckpointDurable ==
    (lastAck # "-" /\ ~delCalled) =>
        /\ hdrExists /\ dataExists
        /\ diskCp \in afterAck
        /\ (procState = "first" /\ diskCp # "") => FirstIndex(dataDurable, diskCp) > 0
        /\ (procState = "restarted" /\ phase = "loaded")
              => sess.Header.LastCopied = diskCp
        /\ (procState = "restarted" /\ phase = "active")
              => /\ planCp # "" => FirstIndex(plan, planCp) > 0
                 /\ SkipsUpTo(planCp, plan, skip)

C3_Witness ==
    /\ procState = "restarted" /\ endKind = "power" /\ phase = "active"
    /\ lastAck = "itemA" /\ ~delCalled
    /\ plan = <<"itemA", "itemB">>
    /\ planCp = "itemA"
    /\ skip = <<TRUE, FALSE>>

\* C4: in every reachable state, so at every point where the process can stop,
\* the checkpoint in the header file is empty or names an item whose transfer
\* has completed.
C4_CheckpointNamesCompleted ==
    hdrExists => (diskCp = "" \/ diskCp \in completed)

C4_Witness ==
    /\ hdrExists /\ diskCp = "itemB"
    /\ \E w \in Workers : pc[w] = "copy" /\ plan[cur[w]] \notin completed
    /\ \E w \in Workers : pc[w] = "save_write"

\* C5: after the first process stopped and the session was resumed, the resume
\* filter skips no item whose transfer has not completed.
C5_NoUnfinishedItemSkipped ==
    (procState = "restarted" /\ phase = "active")
        => \A k \in 1..Len(plan) : skip[k] => plan[k] \in completed

HeaderFlushed ==
    /\ pc["main"] \in {"save_write", "close_write"}
    /\ mainRet' = "ok"

\* C8: Save and Close overwrite the header file only when every item written
\* to the data stream is durable.
C8_SyncBeforeHeader ==
    [][HeaderFlushed => (dataExists => dataDurable = dataContent)]_vars

\* The thread is between the Lock and the deferred Unlock of Save, Close or
\* Delete.
InCritical(t) == pc[t] \in {"save_write", "close_write", "del_hdr", "del_ret"}

\* C9: a thread inside Save, Close or Delete holds the session's mutex, so no
\* two of them are inside at once, and while a thread stays inside, no step of
\* another thread changes the header.
C9_FlushesExclusive ==
    [][/\ \A t \in Threads : InCritical(t)' => mutex' = t
       /\ \A t \in Threads :
            (InCritical(t) /\ pc'[t] = pc[t]) => sess'.Header = sess.Header]_vars

C9_Witness ==
    /\ pc["w1"] = "save_write" /\ mutex = "w1"
    /\ pc["w2"] = "save"
    /\ sess.Header.LastCopied = "itemA"

C11_EachReaderSeesWholeStream ==
    \A r \in Readers : rdState[r] = "eof" => rdSeen[r] = dataContent

\* C12: once the session is active the content of the data stream is the one
\* the population left, whatever session operations follow.
C12_StreamWriteOnce ==
    (Running /\ phase = "active") => dataContent = plan


LastCall == IF calls = <<>> THEN "" ELSE calls[Len(calls)]

\* C14: pre-signing with a non-zero expiry leaves the request's header set as
\* it was before the call.
C14_PreSignKeepsHeaders ==
    (LastCall \in {"PreSignV4", "PreSignV2"} /\ expires # 0)
        => req.Header = reqBefore.Header

\* C15: header-signing leaves the URL (scheme, host, path, raw query) as it
\* was before the call.
C15_SignKeepsURL ==
    LastCall \in {"SignV4", "SignV2"} => req.URL = reqBefore.URL

\* C16: pre-signing with empty credentials returns an error and an empty URL,
\* computes no HMAC and leaves the request as it was.
C16_AnonymousPreSignFails ==
    (/\ LastCall \in {"PreSignV4", "PreSignV2"}
     /\ cfg.AccessKeyID = "" /\ cfg.SecretAccessKey = "")
        => /\ out = [url |-> <<>>, err |-> TRUE]
           /\ hmacs = 0
           /\ req = reqBefore

\* PreSignV2 was called with empty credentials on a request that has a query
\* and no Date header.
C16_Witness ==
    /\ LastCall = "PreSignV2"
    /\ cfg.AccessKeyID = "" /\ cfg.SecretAccessKey = ""
    /\ expires # 0
    /\ req.URL.RawQuery # <<>> /\ "Date" \notin DOMAIN req.Header
    /\ out.err

\* The V4 signature of request r, its header map visited in the given order.
SignatureV4(r, c, exp, t, order) ==
    getSignature(getSigningKey(c.SecretAccessKey, c.Region, t),
                 getStringToSignV4(getCanonicalRequest(r, exp, order).text, c.Region, t))

\* C17: for a fixed request, configuration and timestamp, the canonical
\* headers, the signed headers, the canonical request and the signature are
\* the same whatever order the header map is iterated in.
C17_V4Deterministic ==
    \A t \in Times : \A o1, o2 \in Orders(req.Header) :
        /\ getCanonicalHeaders(req, o1) = getCanonicalHeaders(req, o2)
        /\ getSignedHeaders(req, o1) = getSignedHeaders(req, o2)
        /\ getCanonicalRequest(req, expires, o1) = getCanonicalRequest(req, expires, o2)
        /\ SignatureV4(req, cfg, expires, t, o1) = SignatureV4(req, cfg, expires, t, o2)

\* The request r with its header k stored under the name k2 instead.
Renamed(r, k, k2) ==
    [r EXCEPT !.Header = [x \in (DOMAIN r.Header \ {k}) \cup {k2} |->
                             IF x = k2 THEN r.Header[k] ELSE r.Header[x]]]

\* C18: a request and the same request with one header name in another
\* letter case have the same canonical headers, the same signed-header list
\* and the same signatures.
C18_NameCaseInsensitive ==
    \A k \in DOMAIN req.Header :
      \A k2 \in {ToLower(k), CanonicalHeaderKey(k)} \ DOMAIN req.Header :
        \A t \in Times : \A o \in Orders(req.Header) :
          LET r2 == Renamed(req, k, k2)
              o2 == [i \in 1..Len(o) |-> IF o[i] = k THEN k2 ELSE o[i]]
          IN /\ getCanonicalHeaders(req, o) = getCanonicalHeaders(r2, o2)
             /\ getSignedHeaders(req, o) = getSignedHeaders(r2, o2)
             /\ SignatureV4(req, cfg, expires, t, o) = SignatureV4(r2, cfg, expires, t, o2)
             /\ writeCanonicalizedHeaders(req, o) = writeCanonicalizedHeaders(r2, o2)
             /\ getStringToSignV2(req, cfg, resourceList, o)
                    = getStringToSignV2(r2, cfg, resourceList, o2)

\* The sub-resources of a raw query: its keys that are in the list of the
\* package, sorted, each with the first value the query gives it.
SubResourceText(raw) ==
    LET keys == SortedKeys({raw[i].key : i \in DOMAIN raw}
                               \cap {resourceListDecl[i] : i \in DOMAIN resourceListDecl})
        first(k) == raw[CHOOSE i \in DOMAIN raw :
                           /\ raw[i].key = k
                           /\ \A j \in DOMAIN raw : raw[j].key = k => i <= j].val
        value(k) == QueryEscapeText(QueryUnescapeText(first(k)))
        entry(k) == <<k>> \o (IF value(k) = <<>> THEN <<>> ELSE <<"=">> \o value(k))
    IN IF keys = <<>> THEN <<>>
       ELSE <<"?">> \o Join([i \in 1..Len(keys) |-> entry(keys[i])], "&")

\* C19: the canonicalized resource is the path followed by exactly the query
\* parameters whose key is in resourceList, in sorted key order, each as key
\* or key=value, the first after '?' and the rest joined by '&'; SignV2
\* leaves the URL, with its other parameters, as it was.
C19_OnlyListedSubResources ==
    /\ writeCanonicalizedResource(req, cfg, resourceList)
           = EncodedPathV2(req, cfg) \o SubResourceText(req.URL.RawQuery)
    /\ LastCall = "SignV2" => req.URL = reqBefore.URL

\* SignV2 signed a request with the query uploadId=abc&foo=bar: its signed
\* resource has uploadId=abc only, and foo=bar is still in the URL.
C19_Witness ==
    /\ LastCall = "SignV2"
    /\ ~cfg.isVirtualHostedStyle
    /\ req.URL.RawQuery = <<Param("uploadId", "abc"), Param("foo", "bar")>>
    /\ writeCanonicalizedResource(req, cfg, resourceList)
           = <<"urlencoded(", "/obj", ")", "?", "uploadId", "=", "abc">>

\* C20: whatever the interleaving of concurrent signing calls on distinct
\* requests, each call produces what it would produce alone: here, the
\* sub-resources of its query that are in resourceList, in sorted order.
C20_SignReentrant ==
    \A g \in Goroutines :
        gpc[g] = "done" =>
            gout[g] = SelectSeq(SortStrings(resourceListDecl),
                                LAMBDA res : res \in gkeys[g])

\* The date header a header-signing call sets.
DateName(call) == IF call = "SignV4" THEN "X-Amz-Date" ELSE "Date"

\* C21: a header-signing call leaves a date header the request already
\* carried as it was, adds it when the request carried none, and adds, removes
\* or changes no header other than the date header and Authorization.
C21_DateOnlyIfAbsent ==
    LastCall \in {"SignV4", "SignV2"} =>
        LET d == DateName(LastCall)
            before == reqBefore.Header
            after == req.Header
        IN /\ d \in DOMAIN after
           /\ d \in DOMAIN before => after[d] = before[d]
           /\ \A k \in (DOMAIN before \cup DOMAIN after) \ {d, "Authorization"} :
                  k \in DOMAIN before /\ k \in DOMAIN after /\ after[k] = before[k]

\* The pieces of a text between the occurrences of the token sep.
RECURSIVE Split(_, _)
Split(text, sep) ==
    IF \A i \in 1..Len(text) : text[i] # sep THEN <<text>>
    ELSE LET i == CHOOSE n \in 1..Len(text) :
                      text[n] = sep /\ \A m \in 1..(n - 1) : text[m] # sep
         IN <<SubSeq(text, 1, i - 1)>> \o Split(SubSeq(text, i + 1, Len(text)), sep)

\* The names listed in a text returned by getSignedHeaders, in order.
ListedNames(signedHeaders) ==
    LET parts == Split(signedHeaders, ";")
    IN [i \in 1..Len(parts) |-> Concat(<<parts[i]>>)]

\* The lines of a text returned by getCanonicalHeaders, each without its
\* newline; what follows the last newline is not a line.
BlockLines(block) ==
    LET parts == Split(block, "\n")
    IN SubSeq(parts, 1, Len(parts) - 1)

\* The lower-cased names of the headers of h that are to be signed, and host.
NamesToSign(h) ==
    {ToLower(k) : k \in {x \in DOMAIN h : ToLower(x) \notin
        {"authorization", "content-type", "content-length", "user-agent"}}}
    \cup {"host"}

\* A sequence of names in ascending order with no name twice.
Ascending(names) ==
    \A i \in 1..(Len(names) - 1) : Rank(names[i]) < Rank(names[i + 1])

\* C22: for every header map and every order its keys are visited in, the
\* names listed by getSignedHeaders and the names of the lines written by
\* getCanonicalHeaders are the lower-cased names of all headers except
\* Authorization, Content-Type, Content-Length and User-Agent, and host, in
\* ascending order, no name twice.
C22_SignedHeaderSet ==
    \A order \in Orders(req.Header) :
        LET listed == ListedNames(getSignedHeaders(req, order))
            lines == BlockLines(getCanonicalHeaders(req, order))
            written == [i \in 1..Len(lines) |-> <<lines[i][1]>>]
        IN /\ {listed[i][1] : i \in 1..Len(listed)} = NamesToSign(req.Header)
           /\ {written[i][1] : i \in 1..Len(written)} = NamesToSign(req.Header)
           /\ Ascending([i \in 1..Len(listed) |-> listed[i][1]])
           /\ Ascending([i \in 1..Len(written) |-> written[i][1]])

\* The version loadSessionV6 finds in the header file of a stored session.
StoredVersion(e) == LoadHeader(e.bytes).Version

\* C23: when migrateSessionV5ToV6 returns, every session that had a header
\* file of a version other than "6" has neither its header file nor its data
\* file left, and every session of version "6" has the files it had.
C23_MigrationPurgesAll ==
    [][migState' = "returned" =>
        \A id \in SessionIDs :
            /\ (store[id].hdr /\ StoredVersion(store[id]) # "6")
                   => (~store'[id].hdr /\ ~store'[id].data)
            /\ (store[id].hdr /\ StoredVersion(store[id]) = "6")
                   => store'[id] = store[id]]_vars

\* C24: with a non-empty checkpoint that occurs nowhere in the replay, the
\* closure returns true on every call: every item of the replay is skipped.
C24_MissingCheckpointSkipsAll ==
    (fState # "none" /\ lastCopied # "" /\ FirstIndex(replay, lastCopied) = 0)
        => \A k \in 1..Len(rets) : rets[k] = TRUE

C24_Witness ==
    /\ replay = <<"itemA", "itemC", "itemD">>
    /\ lastCopied = "itemB"
    /\ rets = <<TRUE, TRUE, TRUE>>

\* The name and the colon each line of a canonical header block starts with.
LineNames(block) ==
    LET lines == BlockLines(block)
    IN [i \in 1..Len(lines) |-> SubSeq(lines[i], 1, 2)]

\* C25: for every header map, whatever the orders in which the two functions
\* visit its keys, the canonical header block ends with a newline and its
\* lines start with the names getSignedHeaders lists, each followed by a
\* colon, one line per listed name, in the same order.
C25_SignedListMatchesBlock ==
    LET lists == {ListedNames(getSignedHeaders(req, order)) :
                     order \in Orders(req.Header)}
        blocks == {getCanonicalHeaders(req, order) : order \in Orders(req.Header)}
    IN \A listed \in lists : \A block \in blocks :
        /\ block # <<>> /\ block[Len(block)] = "\n"
        /\ LineNames(block) = [i \in 1..Len(listed) |-> listed[i] \o <<":">>]

\* A header map with a Host entry and a header with an empty value list.
C25_Witness ==
    /\ DOMAIN req.Header = {"Host", "X-Amz-Acl"}
    /\ req.Header["X-Amz-Acl"] = <<>>
    /\ \E order \in Orders(req.Header) :
        /\ getSignedHeaders(req, order) = <<"host", ";", "host", ";", "x-amz-acl">>
        /\ getCanonicalHeaders(req, order) =
              <<"host", ":", "bucket.s3.amazonaws.com", "other.example.com", "\n",
                "host", ":", "bucket.s3.amazonaws.com", "other.example.com", "\n",
                "x-amz-acl", ":", "\n">>

\* The payload-hash field of a canonical request: what follows its last
\* newline.
PayloadField(canonicalRequest) ==
    LET parts == Split(canonicalRequest, "\n")
    IN parts[Len(parts)]

\* C26: the canonical request built by PreSignV4 has UNSIGNED-PAYLOAD as its
\* payload-hash field whatever r.expires is, and the one built by SignV4 has
\* the value of the request's X-Amz-Content-Sha256 header.
C26_PayloadField ==
    /\ (LastCall = "PreSignV4" /\ ~out.err)
           => PayloadField(canonical) = <<"UNSIGNED-PAYLOAD">>
    /\ LastCall = "SignV4"
           => PayloadField(canonical) = HeaderGet(reqBefore.Header, "X-Amz-Content-Sha256")

\* The names in the SignedHeaders part of a V4 Authorization value.
AuthSignedNames(auth) ==
    LET parts == Split(auth, ", ")
    IN ListedNames(Tail(parts[2]))

\* The Authorization values one call of the given kind can set on request r
\* at time t.
AuthOnce(call, r, t) ==
    IF call = "SignV4"
    THEN {SignV4Of(r, cfg, expires, t, order).req.Header["Authorization"] :
             order \in Orders(Set(r, "X-Amz-Date", Format(t, iso8601DateFormat)).Header)}
    ELSE {SignV2Of(r, cfg, resourceList, t, order).req.Header["Authorization"] :
             order \in Orders(SignV2Date(r, t).Header)}

====
